---- MODULE Spec2Model ----
(***************************************************************************)
(* Hotspot scoring and AI-augmented generation pipeline of                 *)
(* antigravity-skills (skills/tophub-trends and skills/football-hotspot).  *)
(*                                                                         *)
(* Strings of the program are tuples of characters, so that                *)
(* String.prototype.includes, slice and replace are computed, not assumed. *)
(* A Latin letter, digit or sign is itself ("A", "5", "."); a Chinese      *)
(* character is one token, its pinyin, with a tone digit where two         *)
(* characters of the program share a pinyin:                               *)
(*   万 wan  亿 yi  热 re  为 wei  什 shen  么 me  真 zhen  相 xiang1      *)
(*   揭 jie1  秘 mi  惊 jing  人 ren  没 mei  想 xiang3  到 dao  不 bu     *)
(*   爱 ai  梅 mei2  西 xi  了 le  转 zhuan  会 hui  签 qian  约 yue       *)
(*   租 zu  借 jie4  进 jin  球 qiu  比 bi  赛 sai  胜 sheng  负 fu        *)
(*   冠 guan  军 jun  射 she  手 shou  榜 bang  最 zui  佳 jia  红 hong    *)
(*   牌 pai  争 zheng  议 yi4  罗 luo  欧 ou  工 gong  智 zhi  能 neng     *)
(*   机 ji1  科 ke  技 ji4  互 hu  联 lian  网 wang  程 cheng  序 xu       *)
(*   员 yuan  代 dai  码 ma  软 ruan  件 jian4  芯 xin1  片 pian           *)
(*   术 shu4  数 shu  据 ju  算 suan  法 fa  模 mo  型 xing  股 gu         *)
(*   票 piao  房 fang  价 jia4  经 jing1  济 ji3  投 tou  资 zi  理 li     *)
(*   财 cai  基 ji  金 jin1  楼 lou  市 shi  融 rong  银 yin  行 hang      *)
(*   消 xiao  费 fei  年 nian  终 zhong  奖 jiang  薪 xin  明 ming         *)
(*   星 xing1  电 dian  影 ying  视 shi4  剧 ju4  综 zong  艺 yi5          *)
(*   演 yan  唱 chang  偶 ou3  像 xiang4  频 pin2  播 bo  游 you  戏 xi4   *)
(*   社 she4  教 jiao  育 yu  医 yi1  疗 liao  政 zheng4  策 ce  改 gai    *)
(*   革 ge  就 jiu  业 ye  考 kao  研 yan2  高 gao  退 tui  休 xiu         *)
(*   养 yang  老 lao  环 huan  保 bao  美 mei3  食 shi2  旅 lv  健 jian    *)
(*   身 shen1  时 shi3  尚 shang  康 kang  宠 chong  物 wu  亲 qin         *)
(*   子 zi3  情 qing  感 gan  心 xin3  职 zhi2  场 chang3  作 zuo          *)
(*   办 ban  公 gong1  创 chuang  晋 jin4  升 sheng1  跳 tiao  槽 cao      *)
(*   裁 cai2  招 zhao  聘 pin  简 jian3  历 li4                            *)
(* Labels that the program only compares as wholes are plain strings:      *)
(*   sources   weibo 微博, zhihu 知乎, baidu 百度, douyin 抖音,            *)
(*             xiaohongshu 小红书, hupu 虎扑, dongqiudi 懂球帝,            *)
(*             weizhilaiyuan 未知来源                                      *)
(*   categories zhuanhui 转会, bisai 比赛, qiuyuandongtai 球员动态,        *)
(*             rongyu 荣誉, zhengyi 争议, qita 其他, shuju 数据,           *)
(*             keji 科技, caijing 财经, yule 娱乐, shehui 社会,            *)
(*             shenghuo 生活, zhichang 职场                                *)
(* A JavaScript number that can be NaN is a record [nan, v]. A property    *)
(* whose value is undefined is left out of the record that models the      *)
(* object, as JSON.stringify leaves it out. Timestamps are not modelled.   *)
(***************************************************************************)
EXTENDS Integers, Sequences, FiniteSets, TLC

VARIABLES
    GEMINI_API_KEY, \* process.env.GEMINI_API_KEY
    entry,          \* the entry point that was run
    argv,           \* the flags on the command line
    useAI,          \* options.useAI of the run
    pc,             \* where the run is
    scrapeResult,   \* scrapeResult.items
    ad,             \* per call site: state, fallback reason, calls, promise
    analysis,       \* football: the AnalysisResult the later steps use
    imagePrompts,   \* football: result of Step 3, as [value |-> the array]
    notes,          \* football: result of Step 4, as [value |-> the array]
    analysisResult, \* trends: what analyzeTrends returned
    report,         \* trends: the report
    nativeSpread,   \* the build keeps [...a, ...b] (target ES2015 or later)
    fn,         \* pure-function harness: which function is applied, or "none"
    arg,        \* pure-function harness: its argument
    ret         \* pure-function harness: its result, NoValue before the call

vars ==
    <<fn, arg, ret, GEMINI_API_KEY, entry, argv, useAI, pc, scrapeResult, ad,
      analysis, imagePrompts, notes, analysisResult, report, nativeSpread>>

NoValue == [none |-> TRUE]

(***************************************************************************)
(* Bounds of the model                                                     *)
(***************************************************************************)
MaxHeatLen == 4
MaxItems == 11
MaxShortItems == 2
MaxTrendItems == 3
MaxTitleLen == 4
MaxKeywords == 3
MaxLongTrends == 32
MaxRows == 3

(***************************************************************************)
(* JavaScript primitives used by the code                                  *)
(***************************************************************************)
\* String.prototype.includes on tuples of characters
includes(s, k) ==
    \E i \in 0..(Len(s) - Len(k)) : SubSeq(s, i + 1, i + Len(k)) = k

\* Array.prototype.slice(0, n)
slice0(s, n) == SubSeq(s, 1, IF Len(s) < n THEN Len(s) ELSE n)

\* All tuples over S of length at most n
SeqsUpTo(S, n) == UNION {[1..k -> S] : k \in 0..n}

\* Names every object literal inherits from Object.prototype: obj[name] is a
\* truthy non-number (a function or an object) although the literal does not
\* list the name.
ObjectPrototypeKeys ==
    {"constructor", "toString", "valueOf", "hasOwnProperty", "__proto__"}

\* A number that may be NaN
Num(n) == [nan |-> FALSE, v |-> n]
NaN == [nan |-> TRUE, v |-> 0]

Digits == {"0", "1", "2", "3", "4", "5", "6", "7", "8", "9"}

DigitVal(c) ==
    CASE c = "0" -> 0 [] c = "1" -> 1 [] c = "2" -> 2 [] c = "3" -> 3
      [] c = "4" -> 4 [] c = "5" -> 5 [] c = "6" -> 6 [] c = "7" -> 7
      [] c = "8" -> 8 [] c = "9" -> 9

RECURSIVE Pow10(_)
Pow10(n) == IF n = 0 THEN 1 ELSE 10 * Pow10(n - 1)

\* A decimal value m * 10^e, or NaN. The heat strings of the model have at
\* most 8 digits, so m < 10^8; the products the thresholds need are exact in
\* double precision for such values (every threshold is an integer and the
\* nearest other value is a relative 10^-8 away).
Dec(m, e) == [nan |-> FALSE, m |-> m, e |-> e]
DecNaN == [nan |-> TRUE, m |-> 0, e |-> 0]

RECURSIVE digitPrefixLen(_)
digitPrefixLen(s) ==
    IF s = <<>> \/ Head(s) \notin Digits THEN 0 ELSE 1 + digitPrefixLen(Tail(s))

RECURSIVE digitsToInt(_)
digitsToInt(s) ==
    IF s = <<>> THEN 0
    ELSE 10 * digitsToInt(SubSeq(s, 1, Len(s) - 1)) + DigitVal(s[Len(s)])

\* parseFloat on a string of digits and dots: the longest prefix
\* digits* ( "." digits* )? holding at least one digit, else NaN
parseFloat(s) ==
    LET ip == digitPrefixLen(s)
        rest == SubSeq(s, ip + 1, Len(s))
        fp == IF rest # <<>> /\ Head(rest) = "." THEN digitPrefixLen(Tail(rest)) ELSE 0
        ds == SubSeq(s, 1, ip) \o SubSeq(rest, 2, fp + 1)
    IN  IF ip + fp = 0 THEN DecNaN ELSE Dec(digitsToInt(ds), 0 - fp)

\* num * 10^k in JavaScript: NaN stays NaN
times10(x, k) == IF x.nan THEN DecNaN ELSE Dec(x.m, x.e + k)

\* x >= c * 10^k in JavaScript: false for NaN
geq(x, c, k) ==
    /\ ~x.nan
    /\ IF x.e >= k THEN x.m * Pow10(x.e - k) >= c
       ELSE IF k - x.e > 8 THEN FALSE
       ELSE x.m >= c * Pow10(k - x.e)

\* num || 0
orZero(x) == IF x.nan \/ x.m = 0 THEN Dec(0, 0) ELSE x

(***************************************************************************)
(* tophub-trends/analyzer.ts                                               *)
(***************************************************************************)
\* heat.replace(/[^0-9.]/g, '')
stripNonNumeric(heat) == SelectSeq(heat, LAMBDA c : c \in Digits \/ c = ".")


\* a parseHeat that looks for wan before yi
parseHeatWanFirst(heat) ==
    IF heat = <<>> THEN Dec(0, 0)
    ELSE LET num == parseFloat(stripNonNumeric(heat))
         IN  IF includes(heat, <<"wan">>) THEN times10(num, 4)
             ELSE IF includes(heat, <<"yi">>) THEN times10(num, 8)
             ELSE orZero(num)

parseHeat(heat) ==
    IF heat = <<>> THEN Dec(0, 0)
    ELSE LET num == parseFloat(stripNonNumeric(heat))
         IN  IF includes(heat, <<"yi">>) THEN times10(num, 8)
             ELSE IF includes(heat, <<"wan">>) THEN times10(num, 4)
             ELSE orZero(num)

sourceBonus ==
    [s \in {"weibo", "zhihu", "baidu", "douyin", "xiaohongshu"} |->
        CASE s = "weibo" -> 15 [] s = "zhihu" -> 20 [] s = "baidu" -> 10
          [] s = "douyin" -> 12 [] s = "xiaohongshu" -> 12]

controversialKeywords ==
    { <<"wei", "shen", "me">>, <<"zhen", "xiang1">>, <<"jie1", "mi">>, <<"jing", "ren">>,
      <<"mei", "xiang3", "dao">>, <<"bu", "ai">>, <<"bu", "xiang3">> }

heatTier(heatValue) ==
    IF geq(heatValue, 1, 7) THEN 40
    ELSE IF geq(heatValue, 5, 6) THEN 30
    ELSE IF geq(heatValue, 1, 6) THEN 20
    ELSE 10

rankTier(rank) ==
    IF rank <= 3 THEN 20
    ELSE IF rank <= 10 THEN 15
    ELSE IF rank <= 20 THEN 10
    ELSE 5

lexicalBonus(title) ==
    IF \E k \in controversialKeywords : includes(title, k) THEN 10 ELSE 0

\* Math.min(score, 100)
mathMin100(score) == IF score < 100 THEN score ELSE 100

\* score += sourceBonus[item.source] || 5 adds a number for a listed source
\* and 5 for a source the lookup does not find. For a name inherited from
\* Object.prototype the lookup yields a function or an object, += makes
\* score a string, every later += appends to it and Math.min returns NaN.
calculateScore(item) ==
    IF item.source \in DOMAIN sourceBonus
    THEN Num(mathMin100(heatTier(parseHeat(item.heat)) + sourceBonus[item.source]
                        + rankTier(item.rank) + lexicalBonus(item.title)))
    ELSE IF item.source \in ObjectPrototypeKeys THEN NaN
    ELSE Num(mathMin100(heatTier(parseHeat(item.heat)) + 5
                        + rankTier(item.rank) + lexicalBonus(item.title)))

(***************************************************************************)
(* Objects and JSON                                                        *)
(***************************************************************************)
Null == [null |-> TRUE]
\* what a function call left behind when it threw
Thrown == [thrown |-> "TypeError"]

\* { ...base, ...extra }: the properties of extra win
withFields(base, extra) ==
    [x \in (DOMAIN base) \cup (DOMAIN extra) |->
        IF x \in DOMAIN extra THEN extra[x] ELSE base[x]]

\* the properties of obj among names
pick(obj, names) == [x \in (DOMAIN obj) \cap names |-> obj[x]]

\* obj[key] || dflt on an object literal whose own keys are ownKeys: the own
\* key, else a key inherited from Object.prototype (a truthy value without
\* the literal's properties), else the default
lookupKey(ownKeys, key, dflt) ==
    IF key \in ownKeys THEN key
    ELSE IF key \in ObjectPrototypeKeys THEN "inherited"
    ELSE dflt

\* JSON values as the parser returns them
JNull == [k |-> "null"]
JNumber == [k |-> "number"]
JObject(f) == [k |-> "object", f |-> f]
JArray(a) == [k |-> "array", a |-> a]

\* { ...item } of a parsed array element: a number or null spreads to nothing
spreadOf(v) == IF v.k = "object" THEN v.f ELSE [x \in {} |-> 0]

(***************************************************************************)
(* The model's response text: a tuple of tokens. Fence is the three         *)
(* backquotes, "json" the word after an opening fence, "NL" a line feed,   *)
(* "SP" a space, "prose" a run of characters that is no JSON, and a name   *)
(* of JsonDocs a complete JSON document.                                   *)
(***************************************************************************)
Fence == "fence"

JsonDocs ==
    {"doc:good", "doc:oddCategory", "doc:null", "doc:number", "doc:emptyObject",
     "doc:emptyArray", "doc:arrayOfNumber", "doc:arrayPartial", "doc:top10Only"}

\* text.replace(/<fence>json\n?/g, ''), <fence> being the three backquotes
RECURSIVE stripJsonFences(_)
stripJsonFences(t) ==
    IF t = <<>> THEN <<>>
    ELSE IF Len(t) >= 2 /\ t[1] = Fence /\ t[2] = "json"
    THEN LET r == SubSeq(t, 3, Len(t))
         IN  stripJsonFences(IF r # <<>> /\ Head(r) = "NL" THEN Tail(r) ELSE r)
    ELSE <<Head(t)>> \o stripJsonFences(Tail(t))

\* .replace(/<fence>\n?/g, '')
RECURSIVE stripFences(_)
stripFences(t) ==
    IF t = <<>> THEN <<>>
    ELSE IF Head(t) = Fence
    THEN LET r == Tail(t)
         IN  stripFences(IF r # <<>> /\ Head(r) = "NL" THEN Tail(r) ELSE r)
    ELSE <<Head(t)>> \o stripFences(Tail(t))

Whitespace == {"NL", "SP"}

RECURSIVE trimStart(_)
trimStart(t) ==
    IF t # <<>> /\ Head(t) \in Whitespace THEN trimStart(Tail(t)) ELSE t

RECURSIVE trimEnd(_)
trimEnd(t) ==
    IF t # <<>> /\ t[Len(t)] \in Whitespace
    THEN trimEnd(SubSeq(t, 1, Len(t) - 1)) ELSE t

trim(t) == trimEnd(trimStart(t))

\* a cleaning that removes the json fences only
cleanedTextJsonFenceOnly(text) == trim(stripJsonFences(text))

cleanedText(text) == trim(stripFences(stripJsonFences(text)))

\* JSON.parse(cleanedText) succeeds on exactly one JSON document
parses(cleaned) == Len(cleaned) = 1 /\ cleaned[1] \in JsonDocs

(***************************************************************************)
(* tophub-trends/analyzer.ts: categories, ranking and grouping             *)
(***************************************************************************)
\* Object.entries(CATEGORY_KEYWORDS) in declaration order: keji 科技, caijing 财经,
\* yule 娱乐, shehui 社会, shenghuo 生活, zhichang 职场
CATEGORY_KEYWORDS ==
    <<
      [category |-> "keji",
       keywords |-> {
          <<"A", "I">>, <<"ren", "gong", "zhi", "neng">>, <<"shou", "ji1">>,
          <<"ke", "ji4">>, <<"hu", "lian", "wang">>, <<"cheng", "xu", "yuan">>,
          <<"dai", "ma">>, <<"ruan", "jian4">>, <<"xin1", "pian">>,
          <<"5", "G">>, <<"ji4", "shu4">>, <<"shu", "ju">>,
          <<"suan", "fa">>, <<"mo", "xing">>
       }],
      [category |-> "caijing",
       keywords |-> {
          <<"gu", "piao">>, <<"fang", "jia4">>, <<"jing1", "ji3">>,
          <<"tou", "zi">>, <<"li", "cai">>, <<"ji", "jin1">>,
          <<"lou", "shi">>, <<"jin1", "rong">>, <<"yin", "hang">>,
          <<"xiao", "fei">>, <<"nian", "zhong", "jiang">>, <<"xin", "zi">>
       }],
      [category |-> "yule",
       keywords |-> {
          <<"ming", "xing1">>, <<"dian", "ying">>, <<"dian", "shi4", "ju4">>,
          <<"zong", "yi5">>, <<"yan", "chang", "hui">>, <<"ou3", "xiang4">>,
          <<"shi4", "pin2">>, <<"re", "bo">>, <<"piao", "fang">>,
          <<"you", "xi4">>
       }],
      [category |-> "shehui",
       keywords |-> {
          <<"jiao", "yu">>, <<"yi1", "liao">>, <<"zheng4", "ce">>,
          <<"gai", "ge">>, <<"jiu", "ye">>, <<"kao", "yan2">>,
          <<"gao", "kao">>, <<"tui", "xiu">>, <<"yang", "lao">>,
          <<"huan", "bao">>
       }],
      [category |-> "shenghuo",
       keywords |-> {
          <<"mei3", "shi2">>, <<"lv", "you">>, <<"jian", "shen1">>,
          <<"shi3", "shang">>, <<"jian", "kang">>, <<"chong", "wu">>,
          <<"qin", "zi3">>, <<"qing", "gan">>, <<"xin3", "li">>
       }],
      [category |-> "zhichang",
       keywords |-> {
          <<"zhi2", "chang3">>, <<"gong", "zuo">>, <<"ban", "gong1">>,
          <<"chuang", "ye">>, <<"jin4", "sheng1">>, <<"tiao", "cao">>,
          <<"cai2", "yuan">>, <<"zhao", "pin">>, <<"jian3", "li4">>
       }]
    >>

\* a categorize that returns the last category with a matching keyword
categorizeLastMatch(title) ==
    LET hits == {i \in 1..Len(CATEGORY_KEYWORDS) :
                    \E k \in CATEGORY_KEYWORDS[i].keywords : includes(title, k)}
    IN  IF hits = {} THEN "qita"
        ELSE CATEGORY_KEYWORDS[CHOOSE i \in hits : \A j \in hits : i >= j].category

\* the first category, in declaration order, one of whose keywords the title
\* includes
categorize(title) ==
    LET hits == {i \in 1..Len(CATEGORY_KEYWORDS) :
                    \E k \in CATEGORY_KEYWORDS[i].keywords : includes(title, k)}
    IN  IF hits = {} THEN "qita"
        ELSE CATEGORY_KEYWORDS[CHOOSE i \in hits : \A j \in hits : i <= j].category

\* the comparator (a, b) => b.score - a.score; a NaN result counts as +0
compareScore(a, b) ==
    IF a.score.nan \/ b.score.nan THEN 0 ELSE b.score.v - a.score.v

\* stable insertion: x goes before the first element it must precede
RECURSIVE insertByScore(_, _)
insertByScore(sorted, x) ==
    IF sorted = <<>> THEN <<x>>
    ELSE IF compareScore(Head(sorted), x) > 0
    THEN <<x>> \o sorted
    ELSE <<Head(sorted)>> \o insertByScore(Tail(sorted), x)

RECURSIVE stableSortByScore(_)
stableSortByScore(s) ==
    IF s = <<>> THEN <<>>
    ELSE insertByScore(stableSortByScore(SubSeq(s, 1, Len(s) - 1)), s[Len(s)])

permutationsOf(s) ==
    {[i \in 1..Len(s) |-> s[p[i]]] :
        p \in {q \in [1..Len(s) -> 1..Len(s)] :
                 \A i, j \in 1..Len(s) : q[i] = q[j] => i = j}}

\* analyzedItems.sort(...): a stable sort. With a NaN score the comparator
\* is not consistent and the order is implementation-defined: any permutation.
sortOutcomes(s) ==
    IF \E i \in 1..Len(s) : s[i].score.nan THEN permutationsOf(s)
    ELSE {stableSortByScore(s)}

analyzedItemsOf(items) ==
    [i \in 1..Len(items) |->
        withFields(items[i], [category |-> categorize(items[i].title),
                              score |-> calculateScore(items[i])])]

\* an analyzeTrends that groups every record analysed
analysisGroupingAll(sorted) ==
    LET top30 == slice0(sorted, 30)
    IN  [top30 |-> top30,
         topPicks |-> slice0(top30, 5),
         categoryGroups |->
            [c \in {sorted[i].category : i \in 1..Len(sorted)} |->
                SelectSeq(sorted, LAMBDA x : x.category = c)]]

\* what analyzeTrends returns when the sort leaves the items as sorted
analysisOfSorted(sorted) ==
    LET top30 == slice0(sorted, 30)
    IN  [top30 |-> top30,
         topPicks |-> slice0(top30, 5),
         categoryGroups |->
            [c \in {top30[i].category : i \in 1..Len(top30)} |->
                SelectSeq(top30, LAMBDA x : x.category = c)]]

analyzeTrends(items) ==
    {analysisOfSorted(sorted) : sorted \in sortOutcomes(analyzedItemsOf(items))}


(***************************************************************************)
(* football-hotspot/analyzer.ts                                            *)
(***************************************************************************)
\* keywords.join(' ')
RECURSIVE join(_)
join(ks) ==
    IF ks = <<>> THEN <<>>
    ELSE IF Len(ks) = 1 THEN ks[1]
    ELSE ks[1] \o <<"SP">> \o join(Tail(ks))

categorizeByKeywords(keywords) ==
    LET keywordStr == join(keywords)
        has(k) == includes(keywordStr, k)
    IN  IF has(<<"zhuan", "hui">>) \/ has(<<"qian", "yue">>) \/ has(<<"zu", "jie4">>)
        THEN "zhuanhui"
        ELSE IF has(<<"jin", "qiu">>) \/ has(<<"bi", "sai">>) \/ has(<<"sheng">>)
                \/ has(<<"fu">>)
        THEN "bisai"
        ELSE IF has(<<"guan", "jun">>) \/ has(<<"she", "shou", "bang">>)
                \/ has(<<"zui", "jia">>)
        THEN "rongyu"
        ELSE IF has(<<"hong", "pai">>) \/ has(<<"V", "A", "R">>)
                \/ has(<<"zheng", "yi4">>)
        THEN "zhengyi"
        ELSE "qiuyuandongtai"

\* the overview sentence of basicAnalysis, which embeds items.length
basicOverview(n) == [sentence |-> "basicOverview", count |-> n]

\* a basicAnalysis that keeps every item
basicAnalysisAllItems(items) ==
    [overview |-> basicOverview(Len(items)),
     top10 |-> [i \in 1..Len(items) |->
                  [rank |-> i,
                   title |-> items[i].title,
                   summary |-> items[i].title,
                   importance |-> 10 - (i - 1),
                   category |-> categorizeByKeywords(items[i].keywords),
                   originalHeat |-> items[i].heat,
                   source |-> items[i].source]],
     trendInsight |-> [text |-> <<"needAI">>]]

basicAnalysis(items) ==
    [overview |-> basicOverview(Len(items)),
     top10 |-> [i \in 1..Len(slice0(items, 10)) |->
                  [rank |-> i,
                   title |-> items[i].title,
                   summary |-> items[i].title,
                   importance |-> 10 - (i - 1),
                   category |-> categorizeByKeywords(items[i].keywords),
                   originalHeat |-> items[i].heat,
                   source |-> items[i].source]],
     trendInsight |-> [text |-> <<"needAI">>]]

\* the structure analyzeFootballHotspots returns from its inner catch
parseFailureAnalysis(items, text) ==
    [overview |-> [text |-> slice0(text, 200)],
     top10 |-> [i \in 1..Len(slice0(items, 10)) |->
                  [rank |-> i,
                   title |-> items[i].title,
                   summary |-> items[i].title,
                   importance |-> 10 - (i - 1),
                   category |-> "qita",
                   originalHeat |-> items[i].heat,
                   source |-> items[i].source]],
     trendInsight |-> [text |-> <<"processing">>]]

\* a find that looks for the whole echoed title
findOriginalWholeTitle(items, title) ==
    LET hits == {i \in 1..Len(items) : includes(items[i].title, title)}
    IN  IF hits = {} THEN 0 ELSE CHOOSE i \in hits : \A j \in hits : i <= j

\* items.find(item => item.title.includes(topic.title.slice(0, 10))):
\* the index of the first such item, 0 when there is none
findOriginal(items, title) ==
    LET hits == {i \in 1..Len(items) : includes(items[i].title, slice0(title, 10))}
    IN  IF hits = {} THEN 0 ELSE CHOOSE i \in hits : \A j \in hits : i <= j

\* what the map callback of the success path does with one parsed topic; it
\* throws when topic.title cannot be sliced
topicUsable(topic) == topic.k = "object" /\ "title" \in DOMAIN topic.f

topicWithMeta(items, topic, index) ==
    LET original == findOriginal(items, topic.f.title)
    IN  withFields(
            pick(topic.f, {"title", "summary", "importance", "category"}),
            [rank |-> index,
             originalHeat |-> IF original = 0 THEN <<>> ELSE items[original].heat,
             source |-> IF original = 0 THEN "" ELSE items[original].source])

\* the inner try block of analyzeFootballHotspots on a parsed value: the
\* result, or Thrown when a property access or call in it throws
analysisFromParsed(items, parsed) ==
    IF parsed.k # "object" THEN Thrown
    ELSE IF "top10" \notin DOMAIN parsed.f THEN Thrown
    ELSE IF parsed.f.top10.k # "array" THEN Thrown
    ELSE LET topics == slice0(parsed.f.top10.a, 10)
         IN  IF \E i \in 1..Len(topics) : ~topicUsable(topics[i]) THEN Thrown
             ELSE withFields(
                    pick(parsed.f, {"overview", "trendInsight"}),
                    [top10 |-> [i \in 1..Len(topics) |->
                                  topicWithMeta(items, topics[i], i)]])

(***************************************************************************)
(* football-hotspot/image-prompt.ts                                        *)
(***************************************************************************)
NANO_BANANA_STYLE == "nano banana style"

categoryTemplates ==
    {"zhuanhui", "bisai", "qiuyuandongtai", "rongyu", "zhengyi", "qita"}

\* topic.category, "undefined" when the topic has none
categoryOf(topic) ==
    IF "category" \in DOMAIN topic THEN topic.category ELSE "undefined"

\* Each prompt is named by the template it was built from. An inherited key
\* yields a value without scene and elements: both print as "undefined".
generateRuleBasedPrompts(topics) ==
    [i \in 1..Len(slice0(topics, 10)) |->
        LET topic == topics[i]
            template == lookupKey(categoryTemplates, categoryOf(topic), "qita")
        IN  [topicRank |-> i,
             topicTitle |-> topic.title,
             prompt |-> IF template = "inherited" THEN "undefined" ELSE template,
             promptCN |-> topic.title \o <<"NANO_BANANA_STYLE_CN">>,
             style |-> NANO_BANANA_STYLE,
             suggestedRatio |-> IF categoryOf(topic) = "bisai" THEN "16:9" ELSE "1:1"]]

\* the image prompts parsed.map(...) builds; parsed.map throws unless parsed
\* is an array
imagePromptsFromParsed(parsed) ==
    IF parsed.k # "array" THEN Thrown
    ELSE [i \in 1..Len(parsed.a) |->
            withFields(spreadOf(parsed.a[i]), [style |-> NANO_BANANA_STYLE])]

(***************************************************************************)
(* football-hotspot/image-prompt.ts, second part: xiaohongshu-note         *)
(***************************************************************************)
emojis ==
    <<"soccer", "fire", "100", "trophy", "sparkles", "eyes", "scream", "dart",
      "muscle", "star">>
hooks ==
    <<"zhenjing", "juele", "taidingle", "bikan", "zhongbang", "dujia", "sukan",
      "qiumibikan">>
ctas == <<"cta1", "cta2", "cta3", "cta4", "cta5">>

\* arr[index % arr.length] for a zero-based index
cyclic(arr, index) == arr[(index % Len(arr)) + 1]

baseTags == <<"zuqiu", "qiumirichang", "tiyuredian">>
categoryTags ==
    [c \in categoryTemplates |->
        CASE c = "zhuanhui" -> <<"zhuanhuichuang", "zuqiuzhuanhui", "qiuyuandongtai">>
          [] c = "bisai" -> <<"bisaijijin", "jinqiushunjian", "zuqiubisai">>
          [] c = "qiuyuandongtai" -> <<"qiuxingshenghuo", "zutanbagua", "qiuyuanrichang">>
          [] c = "rongyu" -> <<"guanjunshike", "zuqiurongyu", "banjiangdianli">>
          [] c = "zhengyi" -> <<"zuqiuzhengyi", "VAR", "caipanpanfa">>
          [] c = "qita" -> <<"zuqiuzixun", "qiutanreyi">>]

\* what a spread lowered to __spreadArray copies from an inherited value:
\* as many undefined entries as the value's length property says
loweredSpread(key) ==
    IF key \in {"constructor", "hasOwnProperty"} THEN <<"undefined">> ELSE <<>>

\* [...baseTags, ...extraTags].slice(0, 8); an inherited value is not
\* iterable: the spread syntax throws a TypeError on it, a lowered spread
\* does not
generateTags(topic) ==
    LET key == lookupKey(DOMAIN categoryTags, categoryOf(topic), "qita")
    IN  IF key = "inherited"
        THEN IF nativeSpread THEN Thrown
             ELSE [tags |-> slice0(baseTags \o loweredSpread(categoryOf(topic)), 8)]
        ELSE [tags |-> slice0(baseTags \o categoryTags[key], 8)]

summaryText(topic) ==
    IF "summary" \in DOMAIN topic THEN topic.summary ELSE <<"undefined">>

generateTemplateNotes(topics) ==
    LET n == Len(slice0(topics, 10))
    IN  IF \E i \in 1..n : generateTags(topics[i]) = Thrown THEN Thrown
        ELSE [i \in 1..n |->
                LET topic == topics[i]
                    emoji == cyclic(emojis, i - 1)
                    hook == cyclic(hooks, i - 1)
                    cta == cyclic(ctas, i - 1)
                IN  [topicRank |-> i,
                     title |-> <<emoji, hook>> \o topic.title,
                     content |-> <<emoji, hook>> \o summaryText(topic)
                                    \o <<"body", emoji, cta>>,
                     tags |-> generateTags(topic).tags,
                     callToAction |-> cta,
                     estimatedReadTime |-> "1min"]]

notesFromParsed(parsed) ==
    IF parsed.k # "array" THEN Thrown
    ELSE [i \in 1..Len(parsed.a) |->
            withFields(spreadOf(parsed.a[i]),
                       [topicRank |-> i, estimatedReadTime |-> "1-2min"])]

(***************************************************************************)
(* The JSON documents the model may answer with, per call site. A document *)
(* that echoes the request is a function of the records in the prompt.     *)
(***************************************************************************)
ModelCategories == <<"zhuanhui", "bisai", "shuju">>

commonDoc(doc) ==
    CASE doc = "doc:null" -> JNull
      [] doc = "doc:number" -> JNumber
      [] doc = "doc:emptyObject" -> JObject([x \in {} |-> 0])
      [] doc = "doc:emptyArray" -> JArray(<<>>)
      [] doc = "doc:arrayOfNumber" -> JArray(<<JNumber>>)
      [] doc = "doc:arrayPartial" -> JArray(<<JObject([prompt |-> "ai-prompt"])>>)
      [] doc = "doc:top10Only" -> JObject([top10 |-> JArray(<<>>)])

analysisDoc(doc, items) ==
    IF doc \in {"doc:good", "doc:oddCategory"}
    THEN JObject(
           [overview |-> [text |-> <<"ai", "overview">>],
            top10 |-> JArray([i \in 1..Len(slice0(items, 10)) |->
                        JObject([rank |-> i,
                                 title |-> items[i].title,
                                 summary |-> <<"ai", "summary">>,
                                 importance |-> 10 - (i - 1),
                                 category |-> IF doc = "doc:good"
                                              THEN cyclic(ModelCategories, i - 1)
                                              ELSE "constructor"])]),
            trendInsight |-> [text |-> <<"ai", "insight">>]])
    ELSE commonDoc(doc)

imageDoc(doc, topics) ==
    IF doc \in {"doc:good", "doc:oddCategory"}
    THEN JArray([i \in 1..Len(slice0(topics, 10)) |->
                   JObject([topicRank |-> i,
                            topicTitle |-> topics[i].title,
                            prompt |-> "ai-prompt",
                            promptCN |-> <<"ai", "promptCN">>,
                            suggestedRatio |-> "16:9"])])
    ELSE commonDoc(doc)

notesDoc(doc, topics) ==
    IF doc \in {"doc:good", "doc:oddCategory"}
    THEN JArray([i \in 1..Len(slice0(topics, 10)) |->
                   JObject([topicRank |-> i,
                            title |-> <<"ai", "title">> \o topics[i].title,
                            content |-> <<"ai", "content">>,
                            tags |-> <<"zuqiu">>,
                            callToAction |-> "ai-cta"])])
    ELSE commonDoc(doc)

(***************************************************************************)
(* The four call sites of the generation pattern                           *)
(***************************************************************************)
Sites == {"trend", "analysis", "image", "notes"}

\* a test that takes only an unset GEMINI_API_KEY for a missing one
truthyUnlessUnset(apiKey) == apiKey # "<unset>"

\* !apiKey is true for an unset and for an empty GEMINI_API_KEY
truthy(apiKey) == apiKey \notin {"<unset>", ""}

\* the promise an async function returns
Pending == [pending |-> TRUE]
FulfilledNull == [null |-> TRUE]
Fulfilled(v) == [value |-> v]
Rejected == [reason |-> "TypeError"]

IdleAdapter ==
    [st |-> "Idle", why |-> "none", calls |-> 0, built |-> FALSE,
     input |-> <<>>, response |-> [kind |-> "none", text |-> <<>>],
     promise |-> Pending]

templateNotesThrow(topics) ==
    \E i \in 1..Len(slice0(topics, 10)) : generateTags(topics[i]) = Thrown

\* the site's return on a fallback path, for the reason why
fallenBack(site, input, why, a) ==
    CASE site \in {"trend", "analysis"} ->
            [a EXCEPT !.st = "FallenBack", !.why = why, !.promise = FulfilledNull]
      [] site = "image" ->
            [a EXCEPT !.st = "FallenBack", !.why = why,
                      !.promise = Fulfilled(generateRuleBasedPrompts(input))]
      [] site = "notes" ->
            IF templateNotesThrow(input)
            THEN [a EXCEPT !.st = "Failed", !.why = why, !.promise = Rejected]
            ELSE [a EXCEPT !.st = "FallenBack", !.why = why,
                           !.promise = Fulfilled(generateTemplateNotes(input))]

\* a site that issues the call a second time
invokeTwice(site, input, apiKey, a) ==
    IF ~truthy(apiKey) THEN fallenBack(site, input, "no-credential", a)
    ELSE [a EXCEPT !.st = "AwaitingModel", !.built = TRUE, !.calls = a.calls + 2]

\* the function up to its await: getGeminiClient, the prompt and the call
invoke(site, input, apiKey, a) ==
    IF ~truthy(apiKey) THEN fallenBack(site, input, "no-credential", a)
    ELSE [a EXCEPT !.st = "AwaitingModel", !.built = TRUE, !.calls = a.calls + 1]

\* what the model collaborator can do with one call
Outcome(kind, text) == [kind |-> kind, text |-> text]

\* the outer catch of a site: it logs error.message, which throws when the
\* value caught is null or undefined, and returns the fallback
outerCatch(site, input, o, a) ==
    IF o.kind = "rejectsNull"
    THEN [a EXCEPT !.st = "Failed", !.why = "call-failed", !.promise = Rejected]
    ELSE fallenBack(site, input, "call-failed", a)

resolved(a, v) == [a EXCEPT !.st = "Resolved", !.promise = Fulfilled(v)]

\* analyzeWithGemini after the await
resumeTrend(input, o, a) ==
    IF o.kind # "text" THEN outerCatch("trend", input, o, a)
    ELSE resolved(a, [insights |-> o.text])

\* an analyzeFootballHotspots whose inner catch returns null, for the caller
\* to take basicAnalysis
resumeAnalysisNullOnParseFailure(items, o, a) ==
    IF o.kind # "text" THEN outerCatch("analysis", items, o, a)
    ELSE LET cleaned == cleanedText(o.text)
             failed == fallenBack("analysis", items, "parse-failed", a)
         IN  IF ~parses(cleaned) THEN failed
             ELSE LET parsed == analysisDoc(cleaned[1], items)
                  IN  IF analysisFromParsed(items, parsed) = Thrown THEN failed
                      ELSE resolved(a, analysisFromParsed(items, parsed))

\* analyzeFootballHotspots after the await: the inner catch returns its own
\* structure, the outer catch returns null
resumeAnalysis(items, o, a) ==
    IF o.kind # "text" THEN outerCatch("analysis", items, o, a)
    ELSE LET cleaned == cleanedText(o.text)
             failed == [a EXCEPT !.st = "FallenBack", !.why = "parse-failed",
                          !.promise = Fulfilled(parseFailureAnalysis(items, o.text))]
         IN  IF ~parses(cleaned) THEN failed
             ELSE LET parsed == analysisDoc(cleaned[1], items)
                  IN  IF analysisFromParsed(items, parsed) = Thrown THEN failed
                      ELSE resolved(a, analysisFromParsed(items, parsed))

\* generateImagePrompts after the await
resumeImage(topics, o, a) ==
    IF o.kind # "text" THEN outerCatch("image", topics, o, a)
    ELSE LET cleaned == cleanedText(o.text)
         IN  IF ~parses(cleaned) THEN fallenBack("image", topics, "parse-failed", a)
             ELSE LET parsed == imageDoc(cleaned[1], topics)
                  IN  IF parsed.k # "array"
                      THEN fallenBack("image", topics, "parse-failed", a)
                      ELSE resolved(a, imagePromptsFromParsed(parsed))

\* generateXiaohongshuNotes after the await
resumeNotes(topics, o, a) ==
    IF o.kind # "text" THEN outerCatch("notes", topics, o, a)
    ELSE LET cleaned == cleanedText(o.text)
         IN  IF ~parses(cleaned) THEN fallenBack("notes", topics, "parse-failed", a)
             ELSE LET parsed == notesDoc(cleaned[1], topics)
                  IN  IF parsed.k # "array"
                      THEN fallenBack("notes", topics, "parse-failed", a)
                      ELSE resolved(a, notesFromParsed(parsed))

resume(site, input, o, a) ==
    CASE site = "trend" -> resumeTrend(input, o, a)
      [] site = "analysis" -> resumeAnalysis(input, o, a)
      [] site = "image" -> resumeImage(input, o, a)
      [] site = "notes" -> resumeNotes(input, o, a)

(***************************************************************************)
(* Inputs of the runs                                                      *)
(***************************************************************************)
\* GEMINI_API_KEY in the environment of the process
Keys == {"<unset>", "", "AIza"}

\* command-line flags the entry points look at, or are documented to
FootballFlags == {"--no-ai"}
TrendsFlags == {"--no-ai", "--use-ai"}

\* scraped football items: title, heat, source and extractKeywords(title)
FootballPool ==
    << [title |-> <<"mei2", "xi", "zhuan", "hui">>, heat |-> <<"5", "wan">>,
        source |-> "weibo",
        keywords |-> << <<"mei2", "xi">>, <<"zhuan", "hui">> >>],
       [title |-> <<"C", "luo", "jin", "qiu">>, heat |-> <<>>,
        source |-> "hupu",
        keywords |-> << <<"C", "luo">>, <<"jin", "qiu">> >>],
       [title |-> <<"ou", "guan", "hong", "pai">>, heat |-> <<"1", "yi">>,
        source |-> "dongqiudi",
        keywords |-> << <<"ou", "guan">>, <<"ou", "guan">>, <<"hong", "pai">> >>] >>

\* n items, ranked 1..n, taken from the pool in turn starting at its k-th
footballItems(k, n) ==
    [i \in 1..n |->
        withFields(FootballPool[((k + i - 2) % Len(FootballPool)) + 1],
                   [rank |-> i])]

\* every start of the pool for the short sequences, the first for the long
FootballItemSeqs ==
    {footballItems(k, n) : k \in 1..Len(FootballPool), n \in 0..MaxShortItems}
    \cup {footballItems(1, n) : n \in 0..MaxItems}

\* topics a caller may hand to the two generators: the top10 of an analysis,
\* or a topic whose category names no template
TopicSeqs ==
    {basicAnalysis(s).top10 : s \in FootballItemSeqs}
    \cup {<<[rank |-> 1, title |-> <<"mei2", "xi">>, summary |-> <<"mei2", "xi">>,
             importance |-> 10, category |-> c]>> : c \in {"shuju", "constructor"}}

TrendPool ==
    { [rank |-> 1, title |-> <<"A", "I", "shou", "ji1">>,
       heat |-> <<"1", "5", "wan">>, source |-> "zhihu"],
      [rank |-> 2, title |-> <<"zhen", "xiang1", "le">>,
       heat |-> <<>>, source |-> "weibo"],
      [rank |-> 1, title |-> <<"mei2", "xi">>,
       heat |-> <<"5">>, source |-> "constructor"] }

TrendItemSeqs == SeqsUpTo(TrendPool, MaxTrendItems)

\* what the model collaborator answers: generateContent rejects with an
\* Error, or with null or undefined, response.text() throws an Error, or
\* there is a text
ResponseTexts ==
    {<<d>> : d \in JsonDocs}
    \cup { <<Fence, "json", "NL", "doc:good", "NL", Fence>>,
           <<Fence, "NL", "doc:good", "NL", Fence>>,
           <<"prose", "NL", "doc:good">>,
           <<"prose">>,
           <<>> }

Outcomes ==
    {Outcome("rejects", <<>>), Outcome("rejectsNull", <<>>),
     Outcome("textThrows", <<>>)}
    \cup {Outcome("text", t) : t \in ResponseTexts}

NoOutcome == Outcome("none", <<>>)

\* the answers to the calls of a pipeline run, which makes up to three calls:
\* some of each kind of Outcomes
RunOutcomes ==
    {Outcome("rejects", <<>>), Outcome("rejectsNull", <<>>)}
    \cup {Outcome("text", t) :
            t \in { <<"doc:good">>, <<"doc:oddCategory">>, <<"doc:emptyArray">>,
                    <<"doc:top10Only">>,
                    <<Fence, "json", "NL", "doc:good", "NL", Fence>>,
                    <<"prose">> }}

(***************************************************************************)
(* The state machine                                                       *)
(***************************************************************************)
Terminal(a) == a.st \in {"Resolved", "FallenBack", "Failed"}

NoRun ==
    /\ GEMINI_API_KEY = "<unset>"
    /\ entry = "none"
    /\ argv = {}
    /\ useAI = FALSE
    /\ pc = "none"
    /\ scrapeResult = <<>>
    /\ ad = [s \in Sites |-> IdleAdapter]
    /\ analysis = NoValue
    /\ imagePrompts = NoValue
    /\ notes = NoValue
    /\ analysisResult = NoValue
    /\ report = NoValue
    /\ nativeSpread = TRUE

NoCall == fn = "none" /\ arg = NoValue /\ ret = NoValue

Init ==
    /\ NoCall
    /\ GEMINI_API_KEY \in Keys
    /\ entry = "none"
    /\ argv = {}
    /\ useAI = FALSE
    /\ pc = "start"
    /\ scrapeResult = <<>>
    /\ ad = [s \in Sites |-> IdleAdapter]
    /\ analysis = NoValue
    /\ imagePrompts = NoValue
    /\ notes = NoValue
    /\ analysisResult = NoValue
    /\ report = NoValue
    /\ nativeSpread \in BOOLEAN

pureVars == <<fn, arg, ret>>
runVars ==
    <<GEMINI_API_KEY, entry, argv, useAI, pc, scrapeResult, ad, analysis,
      imagePrompts, notes, analysisResult, report, nativeSpread>>

\* an adapter starts on input: the code of the site up to its first await
started(site, input) ==
    invoke(site, input, GEMINI_API_KEY, [IdleAdapter EXCEPT !.input = input])

\* main() of football-hotspot/index.ts
FootballMain ==
    /\ pc = "start"
    /\ \E flags \in SUBSET FootballFlags :
          /\ argv' = flags
          /\ useAI' = ("--no-ai" \notin flags)
    /\ entry' = "football.main"
    /\ pc' = "f.scrape"
    /\ UNCHANGED <<GEMINI_API_KEY, scrapeResult, ad, analysis, imagePrompts,
                   notes, analysisResult, report, pureVars, nativeSpread>>

\* runFootballHotspotAnalysis(options) called by another module
RunFootballHotspotAnalysis ==
    /\ pc = "start"
    /\ useAI' \in BOOLEAN
    /\ entry' = "football.run"
    /\ pc' = "f.scrape"
    /\ UNCHANGED <<GEMINI_API_KEY, argv, scrapeResult, ad, analysis,
                   imagePrompts, notes, analysisResult, report, pureVars,
                   nativeSpread>>

\* Step 1 returns; Step 2 starts
FootballScraped ==
    /\ pc = "f.scrape"
    /\ \E scraped \in FootballItemSeqs :
          /\ scrapeResult' = scraped
          /\ IF useAI /\ truthy(GEMINI_API_KEY)
             THEN /\ ad' = [ad EXCEPT !["analysis"] = started("analysis", scraped)]
                  /\ analysis' = analysis
                  /\ pc' = "f.analysis"
             ELSE /\ ad' = ad
                  /\ analysis' = basicAnalysis(scraped)
                  /\ pc' = "f.step3"
    /\ UNCHANGED <<GEMINI_API_KEY, entry, argv, useAI, imagePrompts, notes,
                   analysisResult, report, pureVars, nativeSpread>>

\* the model collaborator settles the call a site is waiting for, and the
\* site runs to its return
ModelResponds ==
    /\ \E site \in Sites, o \in (IF pc = "adapter" THEN Outcomes ELSE RunOutcomes) :
          /\ ad[site].st = "AwaitingModel"
          /\ ad' = [ad EXCEPT ![site] =
                      resume(site, ad[site].input, o,
                             [ad[site] EXCEPT !.response = o])]
    /\ UNCHANGED <<GEMINI_API_KEY, entry, argv, useAI, pc, scrapeResult,
                   analysis, imagePrompts, notes, analysisResult, report,
                   pureVars, nativeSpread>>

\* analysis = aiAnalysis || basicAnalysis(scrapeResult.items), or the catch
\* that rethrows
FootballAnalysed ==
    /\ pc = "f.analysis"
    /\ Terminal(ad["analysis"])
    /\ IF ad["analysis"].st = "Failed"
       THEN analysis' = analysis /\ pc' = "rejected"
       ELSE /\ analysis' = IF ad["analysis"].promise = FulfilledNull
                           THEN basicAnalysis(scrapeResult)
                           ELSE ad["analysis"].promise.value
            /\ pc' = "f.step3"
    /\ UNCHANGED <<GEMINI_API_KEY, entry, argv, useAI, scrapeResult, ad,
                   imagePrompts, notes, analysisResult, report, pureVars,
                   nativeSpread>>

\* Step 3: generateImagePrompts(analysis.top10)
FootballStep3 ==
    /\ pc = "f.step3"
    /\ ad' = [ad EXCEPT !["image"] = started("image", analysis.top10)]
    /\ pc' = "f.image"
    /\ UNCHANGED <<GEMINI_API_KEY, entry, argv, useAI, scrapeResult, analysis,
                   imagePrompts, notes, analysisResult, report, pureVars,
                   nativeSpread>>

\* a Step 4 that does not wait for Step 3 to return
FootballStep4Eager ==
    /\ pc = "f.image"
    /\ pc' = "f.notes"
    /\ imagePrompts' = IF Terminal(ad["image"]) /\ ad["image"].st # "Failed"
                       THEN [value |-> ad["image"].promise.value]
                       ELSE imagePrompts
    /\ ad' = [ad EXCEPT !["notes"] = started("notes", analysis.top10)]
    /\ UNCHANGED <<GEMINI_API_KEY, entry, argv, useAI, scrapeResult, analysis,
                   notes, analysisResult, report, pureVars, nativeSpread>>

\* Step 3 returns; Step 4: generateXiaohongshuNotes(analysis.top10), or the
\* catch that rethrows
FootballStep4 ==
    /\ pc = "f.image"
    /\ Terminal(ad["image"])
    /\ IF ad["image"].st = "Failed"
       THEN pc' = "rejected" /\ imagePrompts' = imagePrompts /\ ad' = ad
       ELSE /\ pc' = "f.notes"
            /\ imagePrompts' = [value |-> ad["image"].promise.value]
            /\ ad' = [ad EXCEPT !["notes"] = started("notes", analysis.top10)]
    /\ UNCHANGED <<GEMINI_API_KEY, entry, argv, useAI, scrapeResult, analysis,
                   notes, analysisResult, report, pureVars, nativeSpread>>

\* Step 4 returns; Step 5 and the return, or the catch that rethrows
FootballStep5 ==
    /\ pc = "f.notes"
    /\ Terminal(ad["notes"])
    /\ IF ad["notes"].st = "Failed"
       THEN pc' = "rejected" /\ notes' = notes
       ELSE pc' = "done" /\ notes' = [value |-> ad["notes"].promise.value]
    /\ UNCHANGED <<GEMINI_API_KEY, entry, argv, useAI, scrapeResult, ad,
                   analysis, imagePrompts, analysisResult, report, pureVars,
                   nativeSpread>>

\* main() of tophub-trends/index.ts
TrendsMain ==
    /\ pc = "start"
    /\ \E flags \in SUBSET TrendsFlags :
          /\ argv' = flags
          /\ useAI' = ("--no-ai" \notin flags /\ truthy(GEMINI_API_KEY))
    /\ entry' = "trends.main"
    /\ pc' = "t.scrape"
    /\ UNCHANGED <<GEMINI_API_KEY, scrapeResult, ad, analysis, imagePrompts,
                   notes, analysisResult, report, pureVars, nativeSpread>>

\* runTrendsAnalysis(options) called by another module
RunTrendsAnalysis ==
    /\ pc = "start"
    /\ useAI' \in BOOLEAN
    /\ entry' = "trends.run"
    /\ pc' = "t.scrape"
    /\ UNCHANGED <<GEMINI_API_KEY, argv, scrapeResult, ad, analysis,
                   imagePrompts, notes, analysisResult, report, pureVars,
                   nativeSpread>>

\* generateReport(analysisResult) with the AI section appended, if any
generateReport(result, aiSection) == [of |-> result, aiSection |-> aiSection]

\* Step 1 returns; Step 2; Step 3 starts, or Steps 4 and 5 when it is skipped
TrendsScraped ==
    /\ pc = "t.scrape"
    /\ \E scraped \in TrendItemSeqs : \E result \in analyzeTrends(scraped) :
          /\ scrapeResult' = scraped
          /\ analysisResult' = result
          /\ IF useAI /\ truthy(GEMINI_API_KEY)
             THEN /\ ad' = [ad EXCEPT !["trend"] = started("trend", result.top30)]
                  /\ report' = report
                  /\ pc' = "t.ai"
             ELSE /\ ad' = ad
                  /\ report' = generateReport(result, <<>>)
                  /\ pc' = "done"
    /\ UNCHANGED <<GEMINI_API_KEY, entry, argv, useAI, analysis, imagePrompts,
                   notes, pureVars, nativeSpread>>

\* Step 3 returns; Steps 4 and 5, or the catch that rethrows
TrendsStep4 ==
    /\ pc = "t.ai"
    /\ Terminal(ad["trend"])
    /\ IF ad["trend"].st = "Failed"
       THEN report' = report /\ pc' = "rejected"
       ELSE /\ report' = generateReport(analysisResult,
                            IF ad["trend"].promise = FulfilledNull THEN <<>>
                            ELSE <<"aiSection">>
                                    \o ad["trend"].promise.value.insights)
            /\ pc' = "done"
    /\ UNCHANGED <<GEMINI_API_KEY, entry, argv, useAI, scrapeResult, ad,
                   analysis, imagePrompts, notes, analysisResult, pureVars,
                   nativeSpread>>

\* one of the four adapters called on its own
CallAdapter ==
    /\ pc = "start"
    /\ \E site \in Sites :
          /\ entry' = site
          /\ \E input \in (CASE site = "trend" ->
                                  {analyzedItemsOf(s) : s \in TrendItemSeqs}
                             [] site = "analysis" -> FootballItemSeqs
                             [] OTHER -> TopicSeqs) :
                ad' = [ad EXCEPT ![site] = started(site, input)]
    /\ pc' = "adapter"
    /\ UNCHANGED <<GEMINI_API_KEY, argv, useAI, scrapeResult, analysis,
                   imagePrompts, notes, analysisResult, report, pureVars,
                   nativeSpread>>

\* the adapter's promise settles
AdapterReturns ==
    /\ pc = "adapter"
    /\ Terminal(ad[entry])
    /\ pc' = IF ad[entry].st = "Failed" THEN "rejected" ELSE "done"
    /\ UNCHANGED <<GEMINI_API_KEY, entry, argv, useAI, scrapeResult, ad,
                   analysis, imagePrompts, notes, analysisResult, report,
                   pureVars, nativeSpread>>

Next ==
    \/ FootballMain
    \/ RunFootballHotspotAnalysis
    \/ FootballScraped
    \/ ModelResponds
    \/ FootballAnalysed
    \/ FootballStep3
    \/ FootballStep4
    \/ FootballStep5
    \/ TrendsMain
    \/ RunTrendsAnalysis
    \/ TrendsScraped
    \/ TrendsStep4
    \/ CallAdapter
    \/ AdapterReturns

Spec == Init /\ [][Next]_vars

(***************************************************************************)
(* Properties of the call sites and of the runs                            *)
(***************************************************************************)
FootballEntries == {"football.main", "football.run"}
TrendsEntries == {"trends.main", "trends.run"}

\* the run is past Step 1 of its pipeline
Scraped ==
    /\ entry \in FootballEntries \cup TrendsEntries
    /\ pc \notin {"start", "f.scrape", "t.scrape"}

\* the football run is past Step 2
Analysed ==
    /\ entry \in FootballEntries
    /\ pc \in {"f.step3", "f.image", "f.notes", "done", "rejected"}

\* the model collaborator was called somewhere
ModelCalled == \E s \in Sites : ad[s].calls > 0

ImageFields == {"topicRank", "topicTitle", "prompt", "promptCN", "suggestedRatio"}
NoteFields == {"title", "content", "tags", "callToAction"}
TopicFields == {"rank", "title", "summary", "importance", "category"}

arrayOf(v, fields, n) ==
    /\ v.k = "array"
    /\ Len(v.a) = n
    /\ \A i \in 1..Len(v.a) : v.a[i].k = "object" /\ fields \subseteq DOMAIN v.a[i].f

expectedShape(site, v, input) ==
    LET n == Len(slice0(input, 10))
    IN  CASE site = "image" -> arrayOf(v, ImageFields, n)
          [] site = "notes" -> arrayOf(v, NoteFields, n)
          [] site = "analysis" ->
                /\ v.k = "object"
                /\ {"overview", "top10", "trendInsight"} \subseteq DOMAIN v.f
                /\ arrayOf(v.f.top10, TopicFields, n)

parsedValue(site, doc, input) ==
    CASE site = "image" -> imageDoc(doc, input)
      [] site = "notes" -> notesDoc(doc, input)
      [] site = "analysis" -> analysisDoc(doc, input)

\* the call raised, or its text is no JSON of the expected shape
FailedOrMisshapen(s) ==
    /\ ad[s].response.kind # "none"
    /\ \/ ad[s].response.kind # "text"
       \/ ~parses(cleanedText(ad[s].response.text))
       \/ ~expectedShape(s, parsedValue(s, cleanedText(ad[s].response.text)[1],
                                        ad[s].input), ad[s].input)

\* C2: with a credential, a call that raised or answered with text that is
\* no JSON of the expected shape ends in FallenBack, and every item of the
\* image prompts or notes returned has the fields of a model-path item.
C2_MisshapenFallsBack ==
    \A s \in {"analysis", "image", "notes"} :
        (Terminal(ad[s]) /\ ad[s].st # "Failed" /\ FailedOrMisshapen(s)) =>
            /\ ad[s].st = "FallenBack"
            /\ s # "analysis" =>
                  \A i \in 1..Len(ad[s].promise.value) :
                     DOMAIN ad[s].promise.value[i] =
                        (IF s = "image" THEN ImageFields \cup {"style"}
                         ELSE NoteFields \cup {"topicRank", "estimatedReadTime"})

\* what the fallback generator of a site returns for the input
fallbackResult(s, input) ==
    CASE s = "image" -> Fulfilled(generateRuleBasedPrompts(input))
      [] s = "notes" -> Fulfilled(generateTemplateNotes(input))
      [] OTHER -> FulfilledNull

C4_NeverRejects ==
    \A s \in Sites :
        ad[s].response.kind # "none" =>
            (ad[s].st \in {"Resolved", "FallenBack"} /\ ad[s].promise # Rejected)

\* C5: a call site issues generateContent at most once: exactly once when
\* the credential is there and the call is reached, and not again after the
\* call failed or its response failed to parse.
C5_AtMostOneCall ==
    \A s \in Sites :
        /\ ad[s].calls <= 1
        /\ ad[s].built <=> ad[s].calls = 1
        /\ ad[s].st \in {"AwaitingModel", "Resolved"} => ad[s].calls = 1
        /\ ad[s].why \in {"call-failed", "parse-failed"} => ad[s].calls = 1
        /\ (truthy(GEMINI_API_KEY) /\ ad[s].st # "Idle") => ad[s].calls = 1

\* C5 happens: a site is done after a call that failed, another after a
\* response that did not parse
C5_Witness ==
    /\ pc = "done"
    /\ ad["image"].why = "call-failed"
    /\ ad["notes"].why = "parse-failed"
    /\ ad["image"].calls = 1
    /\ ad["notes"].calls = 1

\* C6: a run on an empty scraped sequence has empty top30 and topPicks, no
\* category groups, empty fallback results, and calls the model nowhere.
C6_EmptyScrape ==
    (Scraped /\ pc = "done" /\ scrapeResult = <<>>) =>
        /\ entry \in TrendsEntries =>
              /\ analysisResult.top30 = <<>>
              /\ analysisResult.topPicks = <<>>
              /\ DOMAIN analysisResult.categoryGroups = {}
        /\ entry \in FootballEntries =>
              /\ analysis.top10 = <<>>
              /\ imagePrompts.value = <<>>
              /\ notes.value = <<>>
        /\ ~ModelCalled

\* C7: a football run with useAI = false (--no-ai) calls the model in no
\* stage.
C7_NoAiNoCall ==
    (entry \in FootballEntries /\ ~useAI) => ~ModelCalled

\* C8: a standalone tophub-trends run calls the model only when --use-ai is
\* on the command line.
C8_UseAiFlag ==
    (entry = "trends.main" /\ "--use-ai" \notin argv) => ~ModelCalled

(***************************************************************************)
(* Pure-function harness: calculateScore                                   *)
(***************************************************************************)
HeatChars == {"0", "1", "5", ".", "wan", "yi", "re"}
HeatStrings == SeqsUpTo(HeatChars, MaxHeatLen)

\* ranks on both sides of every rank threshold
RankSamples == {1, 3, 4, 10, 11, 20, 21}

SourceSamples == DOMAIN sourceBonus \cup {"weizhilaiyuan", "constructor"}

TitleSamples == { <<"mei2", "xi">>, <<"zhen", "xiang1", "le">> }

ScoreInputs ==
    [rank : RankSamples, title : TitleSamples, heat : HeatStrings,
     source : SourceSamples]

InitScore ==
    /\ NoRun
    /\ fn = "none"
    /\ arg \in ScoreInputs
    /\ ret = NoValue

CallCalculateScore ==
    /\ fn = "none"
    /\ fn' = "calculateScore"
    /\ ret' = calculateScore(arg)
    /\ UNCHANGED <<arg, runVars>>

NextScore == CallCalculateScore

SpecScore == InitScore /\ [][NextScore]_vars

\* C9: calculateScore returns an integer from 10 to 100, whatever the rank
\* (1 or more), the source label and the heat string are.
C9_ScoreInRange ==
    fn = "calculateScore" => (~ret.nan /\ ret.v \in 10..100)

\* the four contributions as the scoring rule states them
heatAward(heat) ==
    LET normalized == orZero(parseHeat(heat))
    IN  CASE geq(normalized, 1, 7) -> 40
          [] ~geq(normalized, 1, 7) /\ geq(normalized, 5, 6) -> 30
          [] ~geq(normalized, 5, 6) /\ geq(normalized, 1, 6) -> 20
          [] OTHER -> 10

platformBonus(source) ==
    CASE source = "weibo" -> 15
      [] source = "zhihu" -> 20
      [] source = "baidu" -> 10
      [] source \in {"douyin", "xiaohongshu"} -> 12
      [] OTHER -> 5

rankAward(rank) ==
    CASE rank <= 3 -> 20
      [] rank > 3 /\ rank <= 10 -> 15
      [] rank > 10 /\ rank <= 20 -> 10
      [] OTHER -> 5

triggerBonus(title) ==
    IF \E i \in 1..Len(title), j \in 1..Len(title) :
          i <= j /\ SubSeq(title, i, j) \in controversialKeywords
    THEN 10 ELSE 0

\* C10: calculateScore is min(H + S + R + L, 100): H by heat tier, S the
\* platform bonus with 5 for any other source, R by rank tier, L 10 for a
\* title with a trigger phrase, each computed without the others.
C10_ScoreFormula ==
    fn = "calculateScore" =>
        LET sum == heatAward(arg.heat) + platformBonus(arg.source)
                     + rankAward(arg.rank) + triggerBonus(arg.title)
        IN  ret = Num(IF sum <= 100 THEN sum ELSE 100)

(***************************************************************************)
(* football-hotspot/scraper.ts: parseHeat                                  *)
(***************************************************************************)
\* \d of a regular expression without the u flag is the ASCII digits only
scraperParseHeat(heat) ==
    LET stripped == SelectSeq(heat, LAMBDA c : c \in 
                       {"0", "1", "2", "3", "4", "5", "6", "7", "8", "9", "."})
        num == parseFloat(stripped)
    IN  IF heat = <<>> THEN Dec(0, 0)
        ELSE IF includes(heat, <<"yi">>) THEN times10(num, 8)
        ELSE IF includes(heat, <<"wan">>) THEN times10(num, 4)
        ELSE orZero(num)

(***************************************************************************)
(* tophub-trends/scraper.ts and football-hotspot/scraper.ts: the scrapers  *)
(***************************************************************************)
\* getMockData(): the 30 records of the built-in list; each title is held as
\* one token
getMockData ==
    <<
      [rank |-> 1, title |-> <<"mockTitle1">>, heat |-> <<"5", "3", "5", "6", "wan">>, source |-> "weibo"],
      [rank |-> 2, title |-> <<"mockTitle2">>, heat |-> <<"3", "2", "0", "0", "wan">>, source |-> "weibo"],
      [rank |-> 3, title |-> <<"mockTitle3">>, heat |-> <<"2", "8", "0", "0", "wan">>, source |-> "zhihu"],
      [rank |-> 4, title |-> <<"mockTitle4">>, heat |-> <<"2", "5", "0", "0", "wan">>, source |-> "zhihu"],
      [rank |-> 5, title |-> <<"mockTitle5">>, heat |-> <<"2", "1", "0", "0", "wan">>, source |-> "baidu"],
      [rank |-> 6, title |-> <<"mockTitle6">>, heat |-> <<"1", "9", "0", "0", "wan">>, source |-> "weibo"],
      [rank |-> 7, title |-> <<"mockTitle7">>, heat |-> <<"1", "7", "0", "0", "wan">>, source |-> "zhihu"],
      [rank |-> 8, title |-> <<"mockTitle8">>, heat |-> <<"1", "5", "0", "0", "wan">>, source |-> "xiaohongshu"],
      [rank |-> 9, title |-> <<"mockTitle9">>, heat |-> <<"1", "3", "0", "0", "wan">>, source |-> "zhihu"],
      [rank |-> 10, title |-> <<"mockTitle10">>, heat |-> <<"1", "2", "0", "0", "wan">>, source |-> "baidu"],
      [rank |-> 11, title |-> <<"mockTitle11">>, heat |-> <<"1", "1", "0", "0", "wan">>, source |-> "weibo"],
      [rank |-> 12, title |-> <<"mockTitle12">>, heat |-> <<"1", "0", "5", "0", "wan">>, source |-> "zhihu"],
      [rank |-> 13, title |-> <<"mockTitle13">>, heat |-> <<"9", "8", "0", "wan">>, source |-> "weibo"],
      [rank |-> 14, title |-> <<"mockTitle14">>, heat |-> <<"9", "5", "0", "wan">>, source |-> "weibo"],
      [rank |-> 15, title |-> <<"mockTitle15">>, heat |-> <<"9", "2", "0", "wan">>, source |-> "zhihu"],
      [rank |-> 16, title |-> <<"mockTitle16">>, heat |-> <<"8", "8", "0", "wan">>, source |-> "xiaohongshu"],
      [rank |-> 17, title |-> <<"mockTitle17">>, heat |-> <<"8", "5", "0", "wan">>, source |-> "douyin"],
      [rank |-> 18, title |-> <<"mockTitle18">>, heat |-> <<"8", "2", "0", "wan">>, source |-> "zhihu"],
      [rank |-> 19, title |-> <<"mockTitle19">>, heat |-> <<"7", "8", "0", "wan">>, source |-> "xiaohongshu"],
      [rank |-> 20, title |-> <<"mockTitle20">>, heat |-> <<"7", "5", "0", "wan">>, source |-> "zhihu"],
      [rank |-> 21, title |-> <<"mockTitle21">>, heat |-> <<"7", "2", "0", "wan">>, source |-> "weibo"],
      [rank |-> 22, title |-> <<"mockTitle22">>, heat |-> <<"6", "8", "0", "wan">>, source |-> "baidu"],
      [rank |-> 23, title |-> <<"mockTitle23">>, heat |-> <<"6", "5", "0", "wan">>, source |-> "douyin"],
      [rank |-> 24, title |-> <<"mockTitle24">>, heat |-> <<"6", "2", "0", "wan">>, source |-> "zhihu"],
      [rank |-> 25, title |-> <<"mockTitle25">>, heat |-> <<"5", "8", "0", "wan">>, source |-> "xiaohongshu"],
      [rank |-> 26, title |-> <<"mockTitle26">>, heat |-> <<"5", "5", "0", "wan">>, source |-> "weibo"],
      [rank |-> 27, title |-> <<"mockTitle27">>, heat |-> <<"5", "2", "0", "wan">>, source |-> "zhihu"],
      [rank |-> 28, title |-> <<"mockTitle28">>, heat |-> <<"4", "8", "0", "wan">>, source |-> "zhihu"],
      [rank |-> 29, title |-> <<"mockTitle29">>, heat |-> <<"4", "5", "0", "wan">>, source |-> "xiaohongshu"],
      [rank |-> 30, title |-> <<"mockTitle30">>, heat |-> <<"4", "2", "0", "wan">>, source |-> "zhihu"]
    >>

\* getMockData() of the football scraper: its 15 records
scraperGetMockData ==
    <<
      [rank |-> 1, title |-> <<"mockTitle1">>, heat |-> <<"5", "3", "5", "6", "wan">>, source |-> "weibo"],
      [rank |-> 2, title |-> <<"mockTitle2">>, heat |-> <<"4", "2", "0", "0", "wan">>, source |-> "hupu"],
      [rank |-> 3, title |-> <<"mockTitle3">>, heat |-> <<"3", "8", "0", "0", "wan">>, source |-> "dongqiudi"],
      [rank |-> 4, title |-> <<"mockTitle4">>, heat |-> <<"3", "5", "0", "0", "wan">>, source |-> "weibo"],
      [rank |-> 5, title |-> <<"mockTitle5">>, heat |-> <<"3", "2", "0", "0", "wan">>, source |-> "hupu"],
      [rank |-> 6, title |-> <<"mockTitle6">>, heat |-> <<"2", "8", "0", "0", "wan">>, source |-> "dongqiudi"],
      [rank |-> 7, title |-> <<"mockTitle7">>, heat |-> <<"2", "5", "0", "0", "wan">>, source |-> "weibo"],
      [rank |-> 8, title |-> <<"mockTitle8">>, heat |-> <<"2", "2", "0", "0", "wan">>, source |-> "hupu"],
      [rank |-> 9, title |-> <<"mockTitle9">>, heat |-> <<"2", "0", "0", "0", "wan">>, source |-> "dongqiudi"],
      [rank |-> 10, title |-> <<"mockTitle10">>, heat |-> <<"1", "8", "0", "0", "wan">>, source |-> "hupu"],
      [rank |-> 11, title |-> <<"mockTitle11">>, heat |-> <<"1", "6", "0", "0", "wan">>, source |-> "weibo"],
      [rank |-> 12, title |-> <<"mockTitle12">>, heat |-> <<"1", "4", "0", "0", "wan">>, source |-> "dongqiudi"],
      [rank |-> 13, title |-> <<"mockTitle13">>, heat |-> <<"1", "3", "0", "0", "wan">>, source |-> "hupu"],
      [rank |-> 14, title |-> <<"mockTitle14">>, heat |-> <<"1", "2", "0", "0", "wan">>, source |-> "dongqiudi"],
      [rank |-> 15, title |-> <<"mockTitle15">>, heat |-> <<"1", "1", "0", "0", "wan">>, source |-> "weibo"]
    >>

\* FOOTBALL_KEYWORDS in list order, restricted to the keywords whose
\* characters occur in the titles of the rows below: zu qiu 足球, ou guan 欧冠
\* (listed twice), mei2 xi 梅西, C luo C罗, jin qiu 进球, hong pai 红牌,
\* zhuan hui 转会, VAR
FOOTBALL_KEYWORDS ==
    << <<"zu", "qiu">>, <<"ou", "guan">>, <<"ou", "guan">>, <<"mei2", "xi">>,
       <<"C", "luo">>, <<"jin", "qiu">>, <<"hong", "pai">>,
       <<"zhuan", "hui">>, <<"V", "A", "R">> >>

\* String.prototype.toLowerCase: only the Latin capitals change
toLowerCase(s) ==
    [i \in 1..Len(s) |->
        CASE s[i] = "A" -> "a" [] s[i] = "C" -> "c" [] s[i] = "I" -> "i"
          [] s[i] = "R" -> "r" [] s[i] = "V" -> "v" [] OTHER -> s[i]]

isFootballRelated(title) ==
    LET lowerTitle == toLowerCase(title)
    IN  \E i \in 1..Len(FOOTBALL_KEYWORDS) :
            includes(lowerTitle, toLowerCase(FOOTBALL_KEYWORDS[i]))

\* FOOTBALL_KEYWORDS.filter(...): the listed spelling, in list order
extractKeywords(title) ==
    LET lowerTitle == toLowerCase(title)
    IN  SelectSeq(FOOTBALL_KEYWORDS,
                  LAMBDA keyword : includes(lowerTitle, toLowerCase(keyword)))

\* The settled promise of a scraper call: items of the returned ScrapeResult
\* and the number of fetch calls issued. fetched is what the one fetch does:
\* it rejects with an Error (kind "rejects", "timeout"), rejects with null or
\* undefined ("rejectsNull"), resolves with a non-OK status ("notOk"),
\* resolves OK but response.text() rejects ("textRejects"), or resolves OK
\* with a page of one card named fetched.source holding fetched.rows.
scrapeTophubTrends(mockMode, fetched) ==
    LET source == IF fetched.source = "" THEN "weizhilaiyuan" ELSE fetched.source
        kept == SelectSeq([i \in 1..Len(fetched.rows) |->
                              [rank |-> i, title |-> fetched.rows[i].title,
                               heat |-> fetched.rows[i].heat, source |-> source]],
                          LAMBDA item : item.title # <<>>)
    IN  IF mockMode = "true"
        THEN [settled |-> "resolved", items |-> getMockData, fetches |-> 0]
        ELSE IF fetched.kind = "ok"
        THEN [settled |-> "resolved", items |-> kept, fetches |-> 1]
        ELSE IF fetched.kind = "rejectsNull"
        THEN [settled |-> "rejected", items |-> <<>>, fetches |-> 1]
        ELSE [settled |-> "resolved", items |-> getMockData, fetches |-> 1]

\* The set of outcomes: allItems.sort by parseHeat descending is stable, and
\* with a NaN heat the comparator is inconsistent and the order is
\* implementation-defined
scrapeFootballHotspots(mockMode, fetched) ==
    LET source == IF fetched.source = "" THEN "weizhilaiyuan" ELSE fetched.source
        allItems == SelectSeq([i \in 1..Len(fetched.rows) |->
                                  [title |-> fetched.rows[i].title,
                                   heat |-> fetched.rows[i].heat,
                                   source |-> source,
                                   keywords |-> extractKeywords(fetched.rows[i].title)]],
                              LAMBDA item : item.title # <<>>
                                              /\ isFootballRelated(item.title))
        n == Len(allItems)
        h(i) == scraperParseHeat(allItems[i].heat)
        gt(x, y) == ~geq(y, x.m, x.e)
        before(i, j) == gt(h(i), h(j)) \/ (~gt(h(j), h(i)) /\ i < j)
        place(i) == Cardinality({j \in 1..n : j # i /\ before(j, i)}) + 1
        sorted == IF n >= 2 /\ \E i \in 1..n : h(i).nan
                  THEN permutationsOf(allItems)
                  ELSE {[p \in 1..n |-> allItems[CHOOSE i \in 1..n : place(i) = p]]}
        ranked(s) == [i \in 1..Len(s) |-> withFields(s[i], [rank |-> i])]
    IN  IF mockMode = "true"
        THEN {[settled |-> "resolved", items |-> scraperGetMockData, fetches |-> 0]}
        ELSE IF fetched.kind = "ok"
        THEN {[settled |-> "resolved", items |-> ranked(s), fetches |-> 1] :
                 s \in sorted}
        ELSE IF fetched.kind = "rejectsNull"
        THEN {[settled |-> "rejected", items |-> <<>>, fetches |-> 1]}
        ELSE {[settled |-> "resolved", items |-> scraperGetMockData, fetches |-> 1]}

(***************************************************************************)
(* Pure functions applied to inputs of every shape: arg holds the          *)
(* arguments of one call as a record, ret what the call returned           *)
(***************************************************************************)
\* heat strings; "fw5" is the fullwidth digit five, which neither character
\* class takes for a digit
HeatInputs ==
    {[heat |-> h] : h \in SeqsUpTo(HeatChars \cup {"fw5"}, MaxHeatLen)}

\* titles over letters of both cases and the characters of keywords of three
\* categories (AI of keji, gu piao of caijing, re bo of yule)
TitleInputs ==
    {[title |-> t] :
        t \in SeqsUpTo({"A", "I", "a", "i", "gu", "piao", "re", "bo"}, MaxTitleLen)}

\* keyword lists as extractKeywords returns them
KeywordInputs ==
    {[keywords |-> ks] :
        ks \in SeqsUpTo({<<"mei", "xi">>, <<"zhuan", "hui">>, <<"jin", "qiu">>,
                         <<"guan", "jun">>, <<"hong", "pai">>, <<"V", "A", "R">>},
                        MaxKeywords)}

\* scraped items handed to analyzeTrends: the short sequences of the runs, and
\* longer ones, ranked 1..n, of the records of the pool with a listed source
\* taken in turn
TrendInputs ==
    LET listed == <<[title |-> <<"A", "I", "shou", "ji1">>,
                     heat |-> <<"1", "5", "wan">>, source |-> "zhihu"],
                    [title |-> <<"zhen", "xiang1", "le">>,
                     heat |-> <<>>, source |-> "weibo"]>>
        ranked(k, n) ==
            [i \in 1..n |-> withFields(listed[((k + i) % 2) + 1], [rank |-> i])]
    IN  {[items |-> s] : s \in TrendItemSeqs}
        \cup {[items |-> ranked(k, n)] : k \in 1..2, n \in (MaxTrendItems + 1)..MaxLongTrends}

\* scraped records and the topics a parsed response echoes for them: two
\* records share the first 10 characters of their titles, one has a short
\* title and no heat; the echoed titles are a full title, parts of one, a
\* title of no record and the empty title. The topic lists are short ones
\* in every order and longer ones, beyond 10, taking the titles in turn.
JoinInputs ==
    LET base == <<"mei2", "xi", "zhuan", "hui", "C", "luo", "jin", "qiu", "ou", "guan">>
        records == {[title |-> base \o <<"hong">>, heat |-> <<"5", "wan">>,
                     source |-> "weibo", keywords |-> <<>>],
                    [title |-> base \o <<"pai">>, heat |-> <<"1", "yi">>,
                     source |-> "hupu", keywords |-> <<>>],
                    [title |-> <<"C", "luo", "jin", "qiu">>, heat |-> <<>>,
                     source |-> "dongqiudi", keywords |-> <<>>]}
        titles == <<base \o <<"pai">>, <<"C", "luo">>, <<"luo", "jin">>,
                    <<"zhen", "xiang1">>, <<>>>>
        topic(t) == JObject([title |-> t, summary |-> <<"ai", "summary">>,
                             importance |-> 5, category |-> "bisai"])
    IN  {[scraped |-> s, echoed |-> e] :
            s \in SeqsUpTo(records, MaxShortItems),
            e \in SeqsUpTo({topic(titles[i]) : i \in 1..Len(titles)}, MaxShortItems)
                  \cup {[i \in 1..n |-> topic(titles[(i % Len(titles)) + 1])] :
                           n \in (MaxShortItems + 1)..MaxItems}}

\* scraper calls: MOCK_MODE unset, "true" or another value, and every outcome
\* of the fetch; pages of up to MaxRows rows, one of them without a title, one
\* not about football, one about football only by a lower-case keyword and
\* with a heat no number can be read from
ScrapeInputs ==
    LET rows == {[title |-> <<"mei2", "xi", "zhuan", "hui">>, heat |-> <<"5", "wan">>],
                 [title |-> <<"C", "luo", "jin", "qiu">>, heat |-> <<>>],
                 [title |-> <<"v", "a", "r">>, heat |-> <<"wan">>],
                 [title |-> <<"A", "I", "shou", "ji">>, heat |-> <<"1", "yi">>],
                 [title |-> <<>>, heat |-> <<"5">>]}
        failures == {[kind |-> k, source |-> "", rows |-> <<>>] :
                        k \in {"rejects", "rejectsNull", "timeout", "notOk",
                               "textRejects"}}
        pages == {[kind |-> "ok", source |-> s, rows |-> r] :
                     s \in {"weibo", ""}, r \in SeqsUpTo(rows, MaxRows)}
    IN  {[mockMode |-> m, fetched |-> f] :
            m \in {"<unset>", "true", "1"}, f \in failures \cup pages}

PureInputs ==
    HeatInputs \cup TitleInputs \cup KeywordInputs \cup TrendInputs \cup JoinInputs
        \cup ScrapeInputs

InitPure ==
    /\ NoRun
    /\ fn = "none"
    /\ arg \in PureInputs
    /\ ret = NoValue

\* one call of f on the arguments held in arg
returns(name, value) ==
    /\ fn = "none"
    /\ fn' = name
    /\ ret' = value
    /\ UNCHANGED <<arg, runVars>>

CallParseHeat ==
    /\ "heat" \in DOMAIN arg
    /\ returns("parseHeat", parseHeat(arg.heat))

CallScraperParseHeat ==
    /\ "heat" \in DOMAIN arg
    /\ returns("scraper.parseHeat", scraperParseHeat(arg.heat))

CallCategorize ==
    /\ "title" \in DOMAIN arg
    /\ returns("categorize", categorize(arg.title))

CallCategorizeByKeywords ==
    /\ "keywords" \in DOMAIN arg
    /\ returns("categorizeByKeywords", categorizeByKeywords(arg.keywords))

CallAnalyzeTrends ==
    /\ "items" \in DOMAIN arg
    /\ \E result \in analyzeTrends(arg.items) : returns("analyzeTrends", result)

\* the inner try block of analyzeFootballHotspots on a parsed response
CallAnalysisFromParsed ==
    /\ "echoed" \in DOMAIN arg
    /\ returns("analyzeFootballHotspots",
               analysisFromParsed(arg.scraped,
                   JObject([overview |-> [text |-> <<"ai", "overview">>],
                            top10 |-> JArray(arg.echoed),
                            trendInsight |-> [text |-> <<"ai", "insight">>]])))

CallScrapeTophubTrends ==
    /\ "fetched" \in DOMAIN arg
    /\ returns("scrapeTophubTrends", scrapeTophubTrends(arg.mockMode, arg.fetched))

CallScrapeFootballHotspots ==
    /\ "fetched" \in DOMAIN arg
    /\ \E result \in scrapeFootballHotspots(arg.mockMode, arg.fetched) :
          returns("scrapeFootballHotspots", result)

NextPure ==
    \/ CallParseHeat
    \/ CallScraperParseHeat
    \/ CallCategorize
    \/ CallCategorizeByKeywords
    \/ CallAnalyzeTrends
    \/ CallAnalysisFromParsed
    \/ CallScrapeTophubTrends
    \/ CallScrapeFootballHotspots

SpecPure == InitPure /\ [][NextPure]_vars

\* C11: where a number can be read from the heat string once everything but
\* digits and dots is removed, each copy of parseHeat returns that number
\* times 10^8 for a string with yi (with wan too or not), times 10^4 for one
\* with wan only, and as it is otherwise; and the two copies return the same
\* for every string.
C11_SuffixScaling ==
    fn \in {"parseHeat", "scraper.parseHeat"} =>
        LET heat == arg.heat
            has(c) == \E i \in 1..Len(heat) : heat[i] = c
            base == parseFloat(SelectSeq(heat, LAMBDA c : c \in Digits \cup {"."}))
            magnitude == IF has("yi") THEN 8 ELSE IF has("wan") THEN 4 ELSE 0
            expected == Dec(base.m, base.e + magnitude)
        IN  /\ ~base.nan =>
                  /\ ~ret.nan
                  /\ \/ ret = expected
                     \/ ret.m = 0 /\ expected.m = 0
            /\ ret = parseHeat(heat)
            /\ ret = scraperParseHeat(heat)

\* C11 happens: a string with both suffixes, through the scraper's copy
C11_Witness ==
    /\ fn = "scraper.parseHeat"
    /\ arg = [heat |-> <<"5", "wan", "yi">>]
    /\ ret = Dec(5, 8)

\* C12: for the empty string and for every string no number can be read
\* from, a lone suffix included, each copy of parseHeat returns exactly 0.
C12_ZeroWithoutNumber ==
    fn \in {"parseHeat", "scraper.parseHeat"} =>
        LET base == parseFloat(SelectSeq(arg.heat, LAMBDA c : c \in Digits \cup {"."}))
        IN  base.nan => ret = Dec(0, 0)

\* C13: categorize returns the first of keji, caijing, yule, shehui,
\* shenghuo, zhichang one of whose keywords is a substring of the title, and
\* qita when there is none (the empty title included); categorizeByKeywords
\* returns the first of zhuanhui, bisai, rongyu, zhengyi one of whose
\* keywords occurs in the joined keywords, and qiuyuandongtai when there is
\* none; each is a function of its argument.
C13_FirstMatchingCategory ==
    /\ fn = "categorize" =>
          LET order == <<"keji", "caijing", "yule", "shehui", "shenghuo", "zhichang">>
              keywordsOf(c) ==
                  UNION {e.keywords : e \in {CATEGORY_KEYWORDS[i] :
                            i \in {j \in 1..Len(CATEGORY_KEYWORDS) :
                                      CATEGORY_KEYWORDS[j].category = c}}}
              matches(i) == \E k \in keywordsOf(order[i]) : includes(arg.title, k)
          IN  /\ \A i \in 1..6 :
                    ret = order[i] <=> (matches(i) /\ \A j \in 1..(i - 1) : ~matches(j))
              /\ ret = "qita" <=> \A i \in 1..6 : ~matches(i)
              /\ ret = categorize(arg.title)
    /\ fn = "categorizeByKeywords" =>
          LET order == <<"zhuanhui", "bisai", "rongyu", "zhengyi">>
              listed == <<{<<"zhuan", "hui">>, <<"qian", "yue">>, <<"zu", "jie4">>},
                          {<<"jin", "qiu">>, <<"bi", "sai">>, <<"sheng">>, <<"fu">>},
                          {<<"guan", "jun">>, <<"she", "shou", "bang">>, <<"zui", "jia">>},
                          {<<"hong", "pai">>, <<"V", "A", "R">>, <<"zheng", "yi4">>}>>
              matches(i) ==
                  \E k \in listed[i] : \E n \in 1..Len(arg.keywords) :
                      includes(arg.keywords[n], k)
          IN  /\ \A i \in 1..4 :
                    ret = order[i] <=> (matches(i) /\ \A j \in 1..(i - 1) : ~matches(j))
              /\ ret = "qiuyuandongtai" <=> \A i \in 1..4 : ~matches(i)
              /\ ret = categorizeByKeywords(arg.keywords)

\* C13 happens: a title whose first keyword belongs to the category declared
\* later
C13_Witness ==
    /\ fn = "categorize"
    /\ arg = [title |-> <<"gu", "piao", "A", "I">>]
    /\ ret = "keji"

\* C14: a title and the same title with its letters in upper case receive the
\* same category from categorize.
C14_CaseInsensitive ==
    fn = "categorize" =>
        LET upper(c) == CASE c = "a" -> "A" [] c = "i" -> "I" [] OTHER -> c
            upperTitle == [n \in 1..Len(arg.title) |-> upper(arg.title[n])]
        IN  ret = categorize(upperTitle)

\* C15: top30 is the first min(30, n) records of the input put in the order
\* of non-increasing score in which records of equal score stay in input
\* order, and topPicks is the first min(5, n) records of top30.
C15_Ranking ==
    fn = "analyzeTrends" =>
        LET input == analyzedItemsOf(arg.items)
            n == Len(input)
            min(a, b) == IF a < b THEN a ELSE b
            before(j, i) ==
                \/ input[j].score.v > input[i].score.v
                \/ input[j].score.v = input[i].score.v /\ j < i
            place(i) == 1 + Cardinality({j \in 1..n : before(j, i)})
        IN  /\ Len(ret.top30) = min(30, n)
            /\ \A i \in 1..n : ~input[i].score.nan
            /\ \A i \in 1..n : place(i) <= 30 => ret.top30[place(i)] = input[i]
            /\ ret.topPicks = [i \in 1..min(5, n) |-> ret.top30[i]]

\* C16: the groups of categoryGroups hold the records of top30 and no others,
\* each record once, in the group of its category, in the order of top30, and
\* no group is empty.
C16_GroupsPartitionTop30 ==
    fn = "analyzeTrends" =>
        LET top30 == ret.top30
            groups == ret.categoryGroups
            at(c) == {i \in 1..Len(top30) : top30[i].category = c}
        IN  /\ \A i \in 1..Len(top30) : top30[i].category \in DOMAIN groups
            /\ \A c \in DOMAIN groups :
                  /\ groups[c] # <<>>
                  /\ Len(groups[c]) = Cardinality(at(c))
                  /\ \A k \in 1..Len(groups[c]) : groups[c][k].category = c
                  /\ \A i \in at(c) :
                        groups[c][Cardinality({j \in at(c) : j <= i})] = top30[i]

\* C16 happens: more than 30 records of two categories were analysed
C16_Witness ==
    /\ fn = "analyzeTrends"
    /\ Len(arg.items) > 30
    /\ Len(ret.top30) = 30
    /\ Cardinality(DOMAIN ret.categoryGroups) = 2

\* C17: each fallback generator, once called, returns min(10, n) items for
\* its n input records without raising, item i carrying rank i and the title
\* of input record i: generateRuleBasedPrompts and generateTemplateNotes at
\* the two generation sites, basicAnalysis in the football run.
C17_FallbackCount ==
    LET min(a, b) == IF a < b THEN a ELSE b
        generatorCalled(s) ==
            \/ ad[s].st = "FallenBack"
            \/ ad[s].st = "Failed" /\ ad[s].response.kind # "rejectsNull"
    IN  /\ \A s \in {"image", "notes"} :
              generatorCalled(s) =>
                  /\ "value" \in DOMAIN ad[s].promise
                  /\ LET out == ad[s].promise.value
                         input == ad[s].input
                     IN  /\ Len(out) = min(10, Len(input))
                         /\ \A i \in 1..Len(out) :
                               /\ out[i].topicRank = i
                               /\ IF s = "image"
                                  THEN out[i].topicTitle = input[i].title
                                  ELSE includes(out[i].title, input[i].title)
        /\ (Analysed /\ "top10" \in DOMAIN analysis
               /\ ad["analysis"].st \in {"Idle", "FallenBack"}
               /\ ad["analysis"].why # "parse-failed") =>
              /\ Len(analysis.top10) = min(10, Len(scrapeResult))
              /\ \A i \in 1..Len(analysis.top10) :
                    /\ analysis.top10[i].rank = i
                    /\ analysis.top10[i].title = scrapeResult[i].title

\* C18: no field of an item a fallback generator returns is an empty string
\* or an empty list, for input records with non-empty titles (the heat may
\* be empty).
C18_FieldsPopulated ==
    /\ ad["image"].st = "FallenBack" =>
          \A p \in {ad["image"].promise.value[i] :
                       i \in 1..Len(ad["image"].promise.value)} :
              /\ p.topicTitle # <<>>
              /\ p.prompt # ""
              /\ p.promptCN # <<>>
              /\ p.style # ""
              /\ p.suggestedRatio # ""
    /\ ad["notes"].st = "FallenBack" =>
          \A n \in {ad["notes"].promise.value[i] :
                       i \in 1..Len(ad["notes"].promise.value)} :
              /\ n.title # <<>>
              /\ n.content # <<>>
              /\ n.tags # <<>>
              /\ n.callToAction # ""
              /\ n.estimatedReadTime # ""
    /\ (Analysed /\ "top10" \in DOMAIN analysis
           /\ ad["analysis"].st \in {"Idle", "FallenBack"}
           /\ ad["analysis"].why # "parse-failed") =>
          /\ analysis.trendInsight.text # <<>>
          /\ \A t \in {analysis.top10[i] : i \in 1..Len(analysis.top10)} :
                /\ t.title # <<>>
                /\ t.summary # <<>>
                /\ t.category # ""
                /\ t.originalHeat # <<>>
                /\ t.source # ""

(***************************************************************************)
(* The runs under the scheduling of the event loop: a continuation that    *)
(* can run does run, and the model collaborator settles every call         *)
(***************************************************************************)
SpecLive == Spec /\ WF_vars(Next)

\* C19: an invocation of a site goes from Idle to AwaitingModel, or straight
\* to FallenBack when there is no credential, and from AwaitingModel to
\* Resolved or FallenBack; once there it changes no more and calls the model
\* no more; and every invocation gets to Resolved or FallenBack.
C19_AdapterLifecycle ==
    /\ [][\A s \in Sites :
            /\ ad[s].st = "Idle" =>
                  \/ ad'[s].st = "Idle"
                  \/ ad'[s].st = "AwaitingModel" /\ truthy(GEMINI_API_KEY)
                  \/ ad'[s].st = "FallenBack" /\ ~truthy(GEMINI_API_KEY)
            /\ ad[s].st = "AwaitingModel" =>
                  ad'[s].st \in {"AwaitingModel", "Resolved", "FallenBack"}
            /\ ad[s].st \in {"Resolved", "FallenBack"} => ad'[s] = ad[s]]_vars
    /\ \A s \in Sites :
          (ad[s].st # "Idle") ~> (ad[s].st \in {"Resolved", "FallenBack"})

\* C20: in a run at most one model call is outstanding; the image prompts
\* are asked for only once the analysis stage is over and has left its
\* top10, the notes only once the image prompts were returned, and both are
\* asked for that top10.
C20_StagesInSequence ==
    entry \in FootballEntries \cup TrendsEntries =>
        /\ Cardinality({s \in Sites : ad[s].st = "AwaitingModel"}) <= 1
        /\ ad["image"].st # "Idle" =>
              /\ ad["analysis"].st \in {"Idle", "Resolved", "FallenBack"}
              /\ ad["analysis"].st = "Idle" => ~(useAI /\ truthy(GEMINI_API_KEY))
              /\ "top10" \in DOMAIN analysis
              /\ ad["image"].input = analysis.top10
        /\ ad["notes"].st # "Idle" =>
              /\ ad["image"].st \in {"Resolved", "FallenBack"}
              /\ imagePrompts = ad["image"].promise
              /\ ad["notes"].input = analysis.top10
        /\ ad["trend"].st # "Idle" =>
              /\ "top30" \in DOMAIN analysisResult
              /\ ad["trend"].input = analysisResult.top30

\* C20 happens: the notes call is outstanding after the analysis fell back
\* on a failed call and the image prompts were resolved
C20_Witness ==
    /\ entry \in FootballEntries
    /\ ad["analysis"].why = "call-failed"
    /\ ad["image"].st = "Resolved"
    /\ ad["notes"].st = "AwaitingModel"
    /\ Len(analysis.top10) = 10

\* C21: the resolved analysis has one topic for each of the first 10 echoed
\* topics, ranked 1..k in their order and with their titles; each carries
\* the heat and source of the first scraped record whose title contains the
\* first 10 characters of the echoed title, or an empty heat and source when
\* no record does, the other topics being produced all the same.
C21_TitleJoin ==
    fn = "analyzeFootballHotspots" =>
        LET items == arg.scraped
            k == IF Len(arg.echoed) < 10 THEN Len(arg.echoed) ELSE 10
            first10(t) == [n \in 1..(IF Len(t) < 10 THEN Len(t) ELSE 10) |-> t[n]]
            occursIn(p, t) ==
                \E off \in 0..(Len(t) - Len(p)) : \A n \in 1..Len(p) : t[off + n] = p[n]
            matching(t) == {j \in 1..Len(items) : occursIn(first10(t), items[j].title)}
        IN  /\ "top10" \in DOMAIN ret
            /\ Len(ret.top10) = k
            /\ \A i \in 1..k :
                  LET echoedTitle == arg.echoed[i].f.title
                      out == ret.top10[i]
                  IN  /\ out.rank = i
                      /\ out.title = echoedTitle
                      /\ IF matching(echoedTitle) = {}
                         THEN out.originalHeat = <<>> /\ out.source = ""
                         ELSE \E j \in matching(echoedTitle) :
                                 /\ \A j2 \in matching(echoedTitle) : j <= j2
                                 /\ out.originalHeat = items[j].heat
                                 /\ out.source = items[j].source

\* C21 happens: an echoed title that is the second record's joins the first
\* record, which shares its first 10 characters, and a title of no record
\* stays without heat and source
C21_Witness ==
    /\ fn = "analyzeFootballHotspots"
    /\ Len(arg.scraped) = 2
    /\ arg.scraped[1].source = "weibo"
    /\ arg.scraped[2].source = "hupu"
    /\ Len(arg.echoed) = 2
    /\ arg.echoed[1].f.title = arg.scraped[2].title
    /\ arg.echoed[2].f.title = <<"zhen", "xiang1">>
    /\ ret.top10[1].source = "weibo"
    /\ ret.top10[2].source = ""

\* C22: a site given a response that parses into the shape asked for,
\* wrapped in a json fence or in a plain fence, ends Resolved with the result
\* it returns for the same response without the fence.
C22_FencesIgnored ==
    \A s \in {"analysis", "image", "notes"} : \A d \in {"doc:good", "doc:oddCategory"} :
        (/\ ad[s].response.kind = "text"
         /\ ad[s].response.text \in {<<Fence, "json", "NL", d, "NL", Fence>>,
                                     <<Fence, "NL", d, "NL", Fence>>}) =>
            LET bare == resume(s, ad[s].input, Outcome("text", <<d>>), ad[s])
            IN  /\ ad[s].st = "Resolved"
                /\ bare.st = "Resolved"
                /\ ad[s].promise = bare.promise

\* C22 happens: the analysis was resolved from a response in a plain fence
C22_Witness ==
    /\ ad["analysis"].st = "Resolved"
    /\ ad["analysis"].response.text = <<Fence, "NL", "doc:good", "NL", Fence>>
    /\ Len(ad["analysis"].promise.value.top10) = 10

\* C23: the sum of the four contributions of calculateScore is from 20 to
\* 90 for every record, so the score returned is that sum, at least 20 and
\* at most 90, and Math.min(score, 100) never lowers it.
C23_ClampNeverBinds ==
    fn = "calculateScore" =>
        LET sum == heatTier(parseHeat(arg.heat)) + platformBonus(arg.source)
                     + rankTier(arg.rank) + lexicalBonus(arg.title)
        IN  /\ sum \in 20..90
            /\ ~ret.nan
            /\ ret.v = sum

\* C24: a football run without a credential ends with analysis.top10, the
\* image prompts and the notes each holding min(10, n) items for the n
\* scraped records, the i-th with rank i and the title of the i-th record,
\* and the i-th topic with importance 11 - i.
C24_NoCredentialRun ==
    (entry \in FootballEntries /\ ~truthy(GEMINI_API_KEY)) =>
        /\ pc # "rejected"
        /\ pc = "done" =>
              LET n == Len(scrapeResult)
                  k == IF n < 10 THEN n ELSE 10
              IN  /\ Len(analysis.top10) = k
                  /\ Len(imagePrompts.value) = k
                  /\ Len(notes.value) = k
                  /\ \A i \in 1..k :
                        /\ analysis.top10[i].rank = i
                        /\ analysis.top10[i].title = scrapeResult[i].title
                        /\ analysis.top10[i].importance = 11 - i
                        /\ analysis.top10[i].importance \in 1..10
                        /\ imagePrompts.value[i].topicRank = i
                        /\ imagePrompts.value[i].topicTitle = scrapeResult[i].title
                        /\ notes.value[i].topicRank = i
                        /\ includes(notes.value[i].title, scrapeResult[i].title)

\* C24 happens: a run without a credential is done on more than 10 records
C24_Witness ==
    /\ entry = "football.main"
    /\ GEMINI_API_KEY = "<unset>"
    /\ pc = "done"
    /\ Len(scrapeResult) = MaxItems
    /\ Len(notes.value) = 10

\* C25: in a trends run the rule-based results are those of analyzeTrends on
\* the scraped data, untouched by the AI step, whether the model call is
\* skipped, succeeds or fails; the run returns in each case, and after a
\* skipped or failed call aiAnalysis is null and the report is the one of a
\* run without AI.
C25_AiStepFrame ==
    (entry \in TrendsEntries /\ Scraped) =>
        /\ analysisResult \in analyzeTrends(scrapeResult)
        /\ pc # "rejected"
        /\ ad["trend"].response.kind \in {"rejects", "rejectsNull", "textThrows"} =>
              ad["trend"].promise = FulfilledNull
        /\ pc = "done" =>
              /\ report.of = analysisResult
              /\ ad["trend"].st # "Resolved" =>
                    /\ ad["trend"].promise \in {Pending, FulfilledNull}
                    /\ report = generateReport(analysisResult, <<>>)

\* C26: a scraper call always resolves. With MOCK_MODE "true" it returns the
\* built-in mock data (30 records for tophub, 15 for football) and issues no
\* fetch; when the fetch rejects, times out or answers with a non-OK status it
\* returns the same mock data; when the fetch succeeds and the page holds no
\* record the scraper keeps, it returns an empty list and not the mock data.
C26_FetchFailuresAbsorbed ==
    fn \in {"scrapeTophubTrends", "scrapeFootballHotspots"} =>
        LET mock == IF fn = "scrapeTophubTrends" THEN getMockData
                    ELSE scraperGetMockData
            kept(row) == /\ row.title # <<>>
                         /\ fn = "scrapeFootballHotspots"
                              => isFootballRelated(row.title)
            rows == arg.fetched.rows
        IN  /\ ret.settled = "resolved"
            /\ Len(mock) = (IF fn = "scrapeTophubTrends" THEN 30 ELSE 15)
            /\ arg.mockMode = "true" => ret.items = mock /\ ret.fetches = 0
            /\ arg.mockMode # "true" /\ arg.fetched.kind # "ok"
                 => ret.items = mock
            /\ arg.mockMode # "true" /\ arg.fetched.kind = "ok"
                 => /\ Len(ret.items) = Cardinality({i \in 1..Len(rows) : kept(rows[i])})
                    /\ (\A i \in 1..Len(rows) : ~kept(rows[i])) => ret.items = <<>>

====
